---- MODULE Spec2Model ----
(***************************************************************************)
(* A model of RAMCloud's CoordinatorServerList (CoordinatorServerList.cc): *)
(* the slot table with generation numbers, the versioned change log, the   *)
(* background updater with its pool of update slots, and sync/halt.        *)
(*                                                                         *)
(* Every method that runs under the mutex is one atomic step.  The pieces  *)
(* of the updater thread that run between two critical sections are        *)
(* separate steps, and so are the two halves of generateUniqueId, which    *)
(* takes no lock.                                                          *)
(***************************************************************************)
EXTENDS Integers, Sequences, FiniteSets, TLC

\* ------------------------------------------------------------------ bounds
\* Highest slot index a caller names in add(); generateUniqueId() stops
\* growing the table there.
MaxIndex == 2
\* With the updater running: the highest generation number a caller names,
\* and callers stop asking for identifiers in a slot that is past it.
MaxGeneration == 0
\* With the updater running, callers stop committing once version reaches
\* this.
MaxVersion == 2
\* Size of the pool of update slots (a configuration member; the constructor
\* default is 5, the model runs a smaller pool).
concurrentRPCs == 2
\* With the updater running, callers stop asking for identifiers after this
\* many.
MaxIssued == 1
\* The same three limits when only the callers run.
CallsMaxGeneration == 1
CallsMaxVersion == 3
CallsMaxIssued == 3
\* The values the callers of the setters pass: segment ids, replication
\* group ids and LogCabin entry ids from 1 up to these.
MaxSegmentId == 3
MaxReplicationId == 2
MaxEntryId == 1

\* ------------------------------------------------------------------ inputs
ServerId(index, generation) == [index |-> index, generation |-> generation]

\* The identifiers callers name, up to a generation.
ServerIds(maxGeneration) ==
    {ServerId(i, g) : i \in 1..MaxIndex, g \in 0..maxGeneration}

\* The service masks callers enlist with.
ServiceMasks == {{"MASTER_SERVICE", "MEMBERSHIP_SERVICE"}, {"BACKUP_SERVICE"}}

SyncCallers == {"s1"}

\* ------------------------------------------------------------------ state
VARIABLES
    serverList,        \* index -> [entry : Tub<Entry>, nextGenerationNumber]
    numberOfMasters,
    numberOfBackups,
    version,
    update,            \* the pending batch: sequence of serialized entries
    updates,           \* deque of committed batches
    lastScan,          \* [noUpdatesFound, searchIndex, minVersion]
    events,            \* what every tracker was handed, in order
    stopUpdater,
    updaterPC,         \* where the updater thread is; "none": no thread
    updateSlots,       \* updateLoop's local pool of UpdateSlot
    slotIndex,         \* updateLoop's loop variable i
    noActiveRpcs,      \* updateLoop's local flag
    syncPC,            \* where each sync() caller is
    haltPC,            \* where the haltUpdater() caller is
    genPC,             \* where the generateUniqueId() caller is
    genIndex,          \* its local variable index
    issued,            \* the identifiers generateUniqueId() returned, in order
    dispatched         \* per update slot: the RPC last loaded into it, with
                       \* the target's serverListVersion at that moment,
                       \* and what became of it

listVars == <<serverList, numberOfMasters, numberOfBackups, version, update,
              updates, lastScan, events>>
updaterVars == <<stopUpdater, updaterPC, updateSlots, slotIndex, noActiveRpcs>>
callerVars == <<syncPC, haltPC, genPC, genIndex>>
vars == <<serverList, numberOfMasters, numberOfBackups, version, update,
          updates, lastScan, events, stopUpdater, updaterPC, updateSlots,
          slotIndex, noActiveRpcs, syncPC, haltPC, genPC, genIndex, issued,
          dispatched>>

\* The mutex-protected members as one value; wakeUpdater and wakeSync record
\* that the call notified hasUpdatesOrStop or listUpToDate.
State ==
    [serverList |-> serverList, numberOfMasters |-> numberOfMasters,
     numberOfBackups |-> numberOfBackups, version |-> version,
     update |-> update, updates |-> updates, lastScan |-> lastScan,
     events |-> events, wakeUpdater |-> FALSE, wakeSync |-> FALSE,
     failed |-> FALSE]

\* ------------------------------------------------------------------ entries
Size(list) == Cardinality(DOMAIN list)

EmptySlot == [entry |-> << >>, nextGenerationNumber |-> 0]

\* std::vector::resize: new slots are default-constructed.
Resize(list, n) ==
    [i \in 0..(n - 1) |-> IF i \in DOMAIN list THEN list[i] ELSE EmptySlot]

\* Entry::Entry(serverId, serviceLocator, services).  The service locator
\* and the read speed are opaque payload and are left out.
Entry(serverId, services) ==
    [serverId |-> serverId, services |-> services, status |-> "UP",
     minOpenSegmentId |-> 0, replicationId |-> 0, serverListVersion |-> 0,
     isBeingUpdated |-> FALSE, serverInfoLogId |-> 0, serverUpdateLogId |-> 0]

\* Entry::serialize: the change record that goes on the wire.
Serialize(entry) ==
    [serverId |-> entry.serverId, services |-> entry.services,
     status |-> entry.status]

Event(kind, serverId) == [event |-> kind, serverId |-> serverId]

isMaster(entry) == "MASTER_SERVICE" \in entry.services
isBackup(entry) == "BACKUP_SERVICE" \in entry.services

\* The test crashed(), remove() and getReferenceFromServerId() make.
HasEntry(list, serverId) ==
    /\ serverId.index < Size(list)
    /\ list[serverId.index].entry # << >>
    /\ list[serverId.index].entry[1].serverId = serverId

\* The entries an update is owed to.
IsMember(entry) ==
    "MEMBERSHIP_SERVICE" \in entry.services /\ entry.status = "UP"

\* ------------------------------------------------------------------ change log
\* commitUpdate that stamps the batch with the version before it.
commitUpdate_StampsOldVersion(s) ==
    IF Len(s.update) = 0
    THEN s
    ELSE [s EXCEPT !.version = @ + 1,
                   !.updates = Append(@, [version |-> s.version,
                                          servers |-> s.update]),
                   !.lastScan.noUpdatesFound = FALSE,
                   !.wakeUpdater = TRUE,
                   !.update = << >>]

\* commitUpdate without its return on an update that has no record.
commitUpdate_CommitsEmpty(s) ==
    [s EXCEPT !.version = @ + 1,
              !.updates = Append(@, [version |-> s.version + 1,
                                     servers |-> s.update]),
              !.lastScan.noUpdatesFound = FALSE,
              !.wakeUpdater = TRUE,
              !.update = << >>]

\* commitUpdate that adds 2 to version.
commitUpdate_BumpsTwice(s) ==
    IF Len(s.update) = 0
    THEN s
    ELSE [s EXCEPT !.version = @ + 2,
                   !.updates = Append(@, [version |-> s.version + 2,
                                          servers |-> s.update]),
                   !.lastScan.noUpdatesFound = FALSE,
                   !.wakeUpdater = TRUE,
                   !.update = << >>]

\* commitUpdate that leaves lastScan.noUpdatesFound as it is.
commitUpdate_KeepsNoUpdatesFound(s) ==
    IF Len(s.update) = 0
    THEN s
    ELSE [s EXCEPT !.version = @ + 1,
                   !.updates = Append(@, [version |-> s.version + 1,
                                          servers |-> s.update]),
                   !.wakeUpdater = TRUE,
                   !.update = << >>]

\* CoordinatorServerList::commitUpdate
commitUpdate(s) ==
    IF Len(s.update) = 0
    THEN s
    ELSE [s EXCEPT !.version = @ + 1,
                   !.updates = Append(@, [version |-> s.version + 1,
                                          servers |-> s.update]),
                   !.lastScan.noUpdatesFound = FALSE,
                   !.wakeUpdater = TRUE,
                   !.update = << >>]

RECURSIVE PopWhile(_, _)
PopWhile(deque, v) ==
    IF deque # << >> /\ Head(deque).version <= v
    THEN PopWhile(Tail(deque), v)
    ELSE deque

\* pruneUpdates that pops one version more than it is asked to.
pruneUpdates_PopsThroughNext(s, v) ==
    LET rest == PopWhile(s.updates, v + 1)
    IN  [s EXCEPT !.updates = rest,
                  !.wakeSync = @ \/ (rest = << >>)]

\* CoordinatorServerList::pruneUpdates
pruneUpdates(s, v) ==
    LET rest == PopWhile(s.updates, v)
    IN  [s EXCEPT !.updates = rest,
                  !.wakeSync = @ \/ (rest = << >>)]

\* ------------------------------------------------------------------ membership
\* add(Lock&, ...) that leaves the nextGenerationNumber of the slot alone.
addLocked_KeepsGeneration(s, serverId, serviceMask) ==
    LET index == serverId.index
        list == IF index >= Size(s.serverList)
                THEN Resize(s.serverList, index + 1)
                ELSE s.serverList
        entry == Entry(serverId, serviceMask)
    IN  [s EXCEPT
            !.serverList =
                [list EXCEPT ![index].entry = <<entry>>],
            !.numberOfMasters =
                IF isMaster(entry) THEN @ + 1 ELSE @,
            !.numberOfBackups =
                IF isBackup(entry) THEN @ + 1 ELSE @,
            !.update = Append(@, Serialize(entry)),
            !.events = Append(@, Event("SERVER_ADDED", serverId))]

\* CoordinatorServerList::add(Lock&, ...)
addLocked(s, serverId, serviceMask) ==
    LET index == serverId.index
        list == IF index >= Size(s.serverList)
                THEN Resize(s.serverList, index + 1)
                ELSE s.serverList
        entry == Entry(serverId, serviceMask)
    IN  [s EXCEPT
            !.serverList =
                [list EXCEPT ![index] =
                    [entry |-> <<entry>>,
                     nextGenerationNumber |-> serverId.generation + 1]],
            !.numberOfMasters =
                IF isMaster(entry) THEN @ + 1 ELSE @,
            !.numberOfBackups =
                IF isBackup(entry) THEN @ + 1 ELSE @,
            !.update = Append(@, Serialize(entry)),
            !.events = Append(@, Event("SERVER_ADDED", serverId))]

\* crashed(const Lock&, ...) without its return on an entry that is CRASHED.
crashedLocked_AgainOnCrashed(s, serverId) ==
    IF ~HasEntry(s.serverList, serverId)
    THEN [s EXCEPT !.failed = TRUE]
    ELSE LET index == serverId.index
             entry == s.serverList[index].entry[1]
             after == [entry EXCEPT !.status = "CRASHED"]
         IN  [s EXCEPT
                 !.serverList[index].entry = <<after>>,
                 !.numberOfMasters = IF isMaster(entry) THEN @ - 1 ELSE @,
                 !.numberOfBackups = IF isBackup(entry) THEN @ - 1 ELSE @,
                 !.update = Append(@, Serialize(after)),
                 !.events = Append(@, Event("SERVER_CRASHED", serverId))]

\* CoordinatorServerList::crashed(const Lock&, ...)
crashedLocked(s, serverId) ==
    IF ~HasEntry(s.serverList, serverId)
    THEN [s EXCEPT !.failed = TRUE]
    ELSE LET index == serverId.index
             entry == s.serverList[index].entry[1]
             after == [entry EXCEPT !.status = "CRASHED"]
         IN  IF entry.status = "CRASHED"
             THEN s
             ELSE [s EXCEPT
                     !.serverList[index].entry = <<after>>,
                     !.numberOfMasters =
                         IF isMaster(entry) THEN @ - 1 ELSE @,
                     !.numberOfBackups =
                         IF isBackup(entry) THEN @ - 1 ELSE @,
                     !.update = Append(@, Serialize(after)),
                     !.events = Append(@, Event("SERVER_CRASHED", serverId))]

\* remove(Lock&, ...) that hands out SERVER_REMOVED before it calls crashed.
removeLocked_NotifiesFirst(s, serverId) ==
    IF ~HasEntry(s.serverList, serverId)
    THEN [s EXCEPT !.failed = TRUE]
    ELSE LET index == serverId.index
             s0 == [s EXCEPT
                      !.events = Append(@, Event("SERVER_REMOVED", serverId))]
             s1 == crashedLocked(s0, serverId)
             down == [s1.serverList[index].entry[1] EXCEPT !.status = "DOWN"]
         IN  [s1 EXCEPT
                 !.serverList[index].entry = << >>,
                 !.update = Append(@, Serialize(down))]

\* remove(Lock&, ...) that serializes the DOWN record ahead of what crashed
\* appended.
removeLocked_RecordsDownFirst(s, serverId) ==
    IF ~HasEntry(s.serverList, serverId)
    THEN [s EXCEPT !.failed = TRUE]
    ELSE LET index == serverId.index
             s1 == crashedLocked(s, serverId)
             down == [s1.serverList[index].entry[1] EXCEPT !.status = "DOWN"]
         IN  [s1 EXCEPT
                 !.serverList[index].entry = << >>,
                 !.update = <<Serialize(down)>> \o @,
                 !.events = Append(@, Event("SERVER_REMOVED", serverId))]

\* remove(Lock&, ...) that does not destroy the entry.
removeLocked_KeepsEntry(s, serverId) ==
    IF ~HasEntry(s.serverList, serverId)
    THEN [s EXCEPT !.failed = TRUE]
    ELSE LET index == serverId.index
             s1 == crashedLocked(s, serverId)
             down == [s1.serverList[index].entry[1] EXCEPT !.status = "DOWN"]
         IN  [s1 EXCEPT
                 !.serverList[index].entry = <<down>>,
                 !.update = Append(@, Serialize(down)),
                 !.events = Append(@, Event("SERVER_REMOVED", serverId))]

\* remove(Lock&, ...) that does not call crashed(lock, serverId).
removeLocked_WithoutCrashed(s, serverId) ==
    IF ~HasEntry(s.serverList, serverId)
    THEN [s EXCEPT !.failed = TRUE]
    ELSE LET index == serverId.index
             down == [s.serverList[index].entry[1] EXCEPT !.status = "DOWN"]
         IN  [s EXCEPT
                 !.serverList[index].entry = << >>,
                 !.update = Append(@, Serialize(down)),
                 !.events = Append(@, Event("SERVER_REMOVED", serverId))]

\* CoordinatorServerList::remove(Lock&, ...)
removeLocked(s, serverId) ==
    IF ~HasEntry(s.serverList, serverId)
    THEN [s EXCEPT !.failed = TRUE]
    ELSE LET index == serverId.index
             s1 == crashedLocked(s, serverId)
             down == [s1.serverList[index].entry[1] EXCEPT !.status = "DOWN"]
         IN  [s1 EXCEPT
                 !.serverList[index].entry = << >>,
                 !.update = Append(@, Serialize(down)),
                 !.events = Append(@, Event("SERVER_REMOVED", serverId))]

\* CoordinatorServerList::add (public): the exception of a locked part
\* unwinds past commitUpdate.
add(s, serverId, serviceMask) ==
    commitUpdate(addLocked(s, serverId, serviceMask))

\* CoordinatorServerList::crashed (public)
crashed(s, serverId) ==
    LET s1 == crashedLocked(s, serverId)
    IN  IF s1.failed THEN s1 ELSE commitUpdate(s1)

\* remove (public) that commits the CRASHED record and the DOWN record apart.
remove_CommitsTwice(s, serverId) ==
    IF ~HasEntry(s.serverList, serverId)
    THEN [s EXCEPT !.failed = TRUE]
    ELSE commitUpdate(removeLocked(commitUpdate(crashedLocked(s, serverId)),
                                   serverId))

\* CoordinatorServerList::remove (public)
remove(s, serverId) ==
    LET s1 == removeLocked(s, serverId)
    IN  IF s1.failed THEN s1 ELSE commitUpdate(s1)

\* getReferenceFromServerId that does not compare the generation numbers.
getReferenceFromServerId_AnyGeneration(s, serverId) ==
    [s EXCEPT !.failed =
        ~(/\ serverId.index < Size(s.serverList)
          /\ s.serverList[serverId.index].entry # << >>)]

\* CoordinatorServerList::getReferenceFromServerId: it throws.
getReferenceFromServerId(s, serverId) ==
    [s EXCEPT !.failed = ~HasEntry(s.serverList, serverId)]

\* CoordinatorServerList::at(const ServerId&) and operator[] of the same
\* argument: the copy they return is serverList[index].entry.
at(s, serverId) == getReferenceFromServerId(s, serverId)

\* setMinOpenSegmentId that stores the value it is given.
setMinOpenSegmentId_Overwrites(s, serverId, segmentId) ==
    IF ~HasEntry(s.serverList, serverId)
    THEN [s EXCEPT !.failed = TRUE]
    ELSE [s EXCEPT !.serverList[serverId.index].entry[1].minOpenSegmentId =
                       segmentId]

\* CoordinatorServerList::setMinOpenSegmentId
setMinOpenSegmentId(s, serverId, segmentId) ==
    IF getReferenceFromServerId(s, serverId).failed
    THEN [s EXCEPT !.failed = TRUE]
    ELSE [s EXCEPT !.serverList[serverId.index].entry[1].minOpenSegmentId =
                       IF @ < segmentId THEN segmentId ELSE @]

\* setReplicationId that clears lastScan.noUpdatesFound as a commit does.
setReplicationId_ClearsNoUpdatesFound(s, serverId, replicationId) ==
    IF getReferenceFromServerId(s, serverId).failed
    THEN [s EXCEPT !.failed = TRUE]
    ELSE [s EXCEPT !.serverList[serverId.index].entry[1].replicationId =
                       replicationId,
                   !.lastScan.noUpdatesFound = FALSE]

\* CoordinatorServerList::setReplicationId
setReplicationId(s, serverId, replicationId) ==
    IF getReferenceFromServerId(s, serverId).failed
    THEN [s EXCEPT !.failed = TRUE]
    ELSE [s EXCEPT !.serverList[serverId.index].entry[1].replicationId =
                       replicationId]

\* CoordinatorServerList::addServerInfoLogId
addServerInfoLogId(s, serverId, entryId) ==
    IF getReferenceFromServerId(s, serverId).failed
    THEN [s EXCEPT !.failed = TRUE]
    ELSE [s EXCEPT !.serverList[serverId.index].entry[1].serverInfoLogId =
                       entryId]

\* CoordinatorServerList::addServerUpdateLogId
addServerUpdateLogId(s, serverId, entryId) ==
    IF getReferenceFromServerId(s, serverId).failed
    THEN [s EXCEPT !.failed = TRUE]
    ELSE [s EXCEPT !.serverList[serverId.index].entry[1].serverUpdateLogId =
                       entryId]

\* CoordinatorServerList::firstFreeIndex: the index it returns.
RECURSIVE FirstFree(_, _)
FirstFree(list, index) ==
    IF index < Size(list) /\ list[index].entry # << >>
    THEN FirstFree(list, index + 1)
    ELSE index

\* firstFreeIndex that starts its search at index 0.
firstFreeIndex_FromZero(list) ==
    LET index == FirstFree(list, 0)
    IN  [index |-> index,
         serverList |-> IF index >= Size(list)
                        THEN Resize(list, index + 1) ELSE list]

\* CoordinatorServerList::firstFreeIndex: the table it leaves.
firstFreeIndex(list) ==
    LET index == FirstFree(list, 1)
    IN  [index |-> index,
         serverList |-> IF index >= Size(list)
                        THEN Resize(list, index + 1) ELSE list]

\* CoordinatorServerList::generateUniqueId, after firstFreeIndex returned.
generateUniqueIdAt(list, index) ==
    LET pair == list[index]
        id == ServerId(index, pair.nextGenerationNumber)
    IN  [id |-> id,
         serverList |->
            [list EXCEPT ![index] =
                [entry |-> <<Entry(id, {})>>,
                 nextGenerationNumber |->
                    pair.nextGenerationNumber + 1]]]

\* ------------------------------------------------------------------ updater
\* isClusterUpToDate that does not compare the versions.
isClusterUpToDate_IgnoresVersion(s) ==
    \A i \in DOMAIN s.serverList :
        LET slot == s.serverList[i]
        IN  slot.entry = << >> \/
            ~(/\ "MEMBERSHIP_SERVICE" \in slot.entry[1].services
              /\ slot.entry[1].status = "UP"
              /\ slot.entry[1].isBeingUpdated)

\* CoordinatorServerList::isClusterUpToDate
isClusterUpToDate(s) ==
    \A i \in DOMAIN s.serverList :
        LET slot == s.serverList[i]
        IN  slot.entry = << >> \/
            ~(/\ "MEMBERSHIP_SERVICE" \in slot.entry[1].services
              /\ slot.entry[1].status = "UP"
              /\ (slot.entry[1].serverListVersion # s.version
                  \/ slot.entry[1].isBeingUpdated))

\* Below, a value that a definition uses more than once is bound as the
\* element of a set of one element, which has TLC compute it once.

RECURSIVE Scan(_, _, _)
\* The body of the do-while of hasUpdates for slot i, after its if (i == 0),
\* and the iterations after it.
ScanEntry(s1, i) ==
    LET slot == s1.serverList[i]
        member == slot.entry # << >> /\ IsMember(slot.entry[1])
        entry == slot.entry[1]
    IN  CHOOSE r \in
          {IF member /\ entry.serverListVersion # s2.version
                     /\ ~entry.isBeingUpdated
           THEN [found |-> TRUE,
                 state |-> [s2 EXCEPT !.lastScan.searchIndex = i,
                                      !.lastScan.noUpdatesFound = FALSE]]
           ELSE Scan(s2, (i + 1) % Size(s2.serverList), FALSE) :
             s2 \in {IF member /\ (s1.lastScan.minVersion = 0
                                    \/ (entry.serverListVersion > 0
                                        /\ entry.serverListVersion
                                               < s1.lastScan.minVersion))
                     THEN [s1 EXCEPT !.lastScan.minVersion =
                                          entry.serverListVersion]
                     ELSE s1}} : TRUE

\* One iteration of the do-while of hasUpdates and the ones after it.
\* first: this is the iteration the loop starts with.
Scan(s, i, first) ==
    IF ~first /\ i = s.lastScan.searchIndex
    THEN [found |-> FALSE,
          state |-> [s EXCEPT !.lastScan.noUpdatesFound = TRUE]]
    ELSE CHOOSE r \in
           {ScanEntry(s1, i) :
              s1 \in {IF i = 0
                      THEN [pruneUpdates(s, s.lastScan.minVersion)
                               EXCEPT !.lastScan.minVersion = 0]
                      ELSE s}} : TRUE

\* CoordinatorServerList::hasUpdates
hasUpdates(s) ==
    IF s.lastScan.noUpdatesFound \/ Size(s.serverList) = 0
    THEN [found |-> FALSE, state |-> s]
    ELSE Scan(s, s.lastScan.searchIndex, TRUE)

NoRpc == [rpc |-> FALSE, serverId |-> ServerId(0, 0), originalVersion |-> 0,
          protobuf |-> [version |-> 0, type |-> "NONE"]]

\* loadNextUpdate after hasUpdates returned true and left state s1.
LoadEntry(s1) ==
    LET index == s1.lastScan.searchIndex
        entry == s1.serverList[index].entry[1]
        s2 == [s1 EXCEPT
                 !.lastScan.searchIndex = (index + 1) % Size(s1.serverList),
                 !.serverList[index].entry[1].isBeingUpdated = TRUE]
        next == entry.serverListVersion + 1
        inRange == /\ s1.updates # << >>
                   /\ Head(s1.updates).version <= next
                   /\ s1.updates[Len(s1.updates)].version >= next
    IN  IF entry.serverListVersion = 0
        THEN [loaded |-> TRUE, fatal |-> FALSE, state |-> s2,
              slot |-> [rpc |-> TRUE, serverId |-> entry.serverId,
                        originalVersion |-> 0,
                        protobuf |-> [version |-> s1.version,
                                      type |-> "FULL_LIST"]]]
        ELSE IF ~inRange
        THEN [loaded |-> FALSE, fatal |-> TRUE, state |-> s2, slot |-> NoRpc]
        ELSE [loaded |-> TRUE, fatal |-> FALSE, state |-> s2,
              slot |-> [rpc |-> TRUE, serverId |-> entry.serverId,
                        originalVersion |-> entry.serverListVersion,
                        protobuf |->
                          [version |->
                             s1.updates[next - Head(s1.updates).version + 1]
                                .version,
                           type |-> "UPDATE"]]]

\* CoordinatorServerList::loadNextUpdate.  loaded: its return value; fatal:
\* one of its assertions does not hold (updates.at() then throws).
loadNextUpdate(s) ==
    CHOOSE r \in
      {IF ~scan.found
       THEN [loaded |-> FALSE, fatal |-> FALSE, state |-> scan.state,
             slot |-> NoRpc]
       ELSE LoadEntry(scan.state) : scan \in {hasUpdates(s)}} : TRUE

\* updateEntryVersion without its last if statement.
updateEntryVersion_LeavesNoUpdatesFound(s, serverId, v) ==
    IF HasEntry(s.serverList, serverId)
    THEN [s EXCEPT
            !.serverList[serverId.index].entry[1].serverListVersion = v,
            !.serverList[serverId.index].entry[1].isBeingUpdated = FALSE]
    ELSE s

\* CoordinatorServerList::updateEntryVersion
updateEntryVersion(s, serverId, v) ==
    IF HasEntry(s.serverList, serverId)
    THEN [s EXCEPT
            !.serverList[serverId.index].entry[1].serverListVersion = v,
            !.serverList[serverId.index].entry[1].isBeingUpdated = FALSE,
            !.lastScan.noUpdatesFound = IF v < s.version THEN FALSE ELSE @]
    ELSE s

\* What ServerIdRpcWrapper can report for an RPC to serverId once it is
\* looked at: still pending, done, timed out, or ServerNotUpException, the
\* last only when the list no longer has the server as UP.
RpcOutcomes(list, serverId) ==
    {"pending", "success", "timeout"} \cup
    (IF HasEntry(list, serverId)
        /\ list[serverId.index].entry[1].status = "UP"
     THEN {} ELSE {"serverNotUp"})

NoDispatch == [serverId |-> ServerId(0, 0), version |-> 0, fate |-> "none"]

\* ------------------------------------------------------------------ Init
\* The state the constructor leaves: an empty list and a started updater.
Init ==
    /\ serverList = << >>
    /\ numberOfMasters = 0
    /\ numberOfBackups = 0
    /\ version = 0
    /\ update = << >>
    /\ updates = << >>
    /\ lastScan = [noUpdatesFound |-> FALSE, searchIndex |-> 0,
                   minVersion |-> 0]
    /\ events = << >>
    /\ stopUpdater = FALSE
    /\ updaterPC = "loop"
    /\ updateSlots = [i \in 0..(concurrentRPCs - 1) |-> NoRpc]
    /\ slotIndex = 0
    /\ noActiveRpcs = TRUE
    /\ syncPC = [c \in SyncCallers |-> "idle"]
    /\ haltPC = "idle"
    /\ genPC = "idle"
    /\ genIndex = 0
    /\ issued = << >>
    /\ dispatched = [i \in 0..(concurrentRPCs - 1) |-> NoDispatch]

\* ------------------------------------------------------------------ helpers
Install(r) ==
    /\ serverList' = r.serverList
    /\ numberOfMasters' = r.numberOfMasters
    /\ numberOfBackups' = r.numberOfBackups
    /\ version' = r.version
    /\ update' = r.update
    /\ updates' = r.updates
    /\ lastScan' = r.lastScan
    /\ events' = r.events

\* hasUpdatesOrStop.notify_one(): only the updater waits on it.
NotifiedUpdater(pc, notified) ==
    IF notified /\ pc = "waiting" THEN "waitLoop" ELSE pc

\* listUpToDate.notify_all(): the sync() callers wait on it.
NotifiedSync(pcs, notified) ==
    [c \in SyncCallers |->
        IF notified /\ pcs[c] = "waiting" THEN "check" ELSE pcs[c]]

\* A public call that runs under the mutex and ends in state r.
Call(r) ==
    /\ Install(r)
    /\ updaterPC' = NotifiedUpdater(updaterPC, r.wakeUpdater)
    /\ syncPC' = NotifiedSync(syncPC, r.wakeSync)
    /\ UNCHANGED <<stopUpdater, updateSlots, slotIndex, noActiveRpcs, haltPC,
                   genPC, genIndex, issued,
                   dispatched>>

\* ------------------------------------------------------------------ public calls
Add(serverId, serviceMask) ==
    Call(add(State, serverId, serviceMask))

Crashed(serverId) ==
    Call(crashed(State, serverId))

Remove(serverId) ==
    Call(remove(State, serverId))

\* at(serverId) returns a copy or throws; the list is as it was.
At(serverId) ==
    Call([at(State, serverId) EXCEPT !.failed = FALSE])

SetMinOpenSegmentId(serverId, segmentId) ==
    Call(setMinOpenSegmentId(State, serverId, segmentId))

SetReplicationId(serverId, replicationId) ==
    Call(setReplicationId(State, serverId, replicationId))

AddServerInfoLogId(serverId, entryId) ==
    Call(addServerInfoLogId(State, serverId, entryId))

AddServerUpdateLogId(serverId, entryId) ==
    Call(addServerUpdateLogId(State, serverId, entryId))

\* generateUniqueId up to the return of firstFreeIndex; it holds no lock.
GenerateFirstFree(maxGeneration) ==
    /\ genPC = "idle"
    /\ LET r == firstFreeIndex(serverList)
       IN  /\ r.index <= MaxIndex
           /\ r.serverList[r.index].nextGenerationNumber <= maxGeneration
           /\ serverList' = r.serverList
           /\ genIndex' = r.index
    /\ genPC' = "construct"
    /\ UNCHANGED <<numberOfMasters, numberOfBackups, version, update, updates,
                   lastScan, events, updaterVars, syncPC, haltPC, issued,
                   dispatched>>

\* ... and the rest of generateUniqueId.
GenerateConstruct ==
    /\ genPC = "construct"
    /\ LET r == generateUniqueIdAt(serverList, genIndex)
       IN  /\ serverList' = r.serverList
           /\ issued' = Append(issued, r.id)
    /\ genPC' = "idle"
    /\ genIndex' = 0
    /\ UNCHANGED <<numberOfMasters, numberOfBackups, version, update, updates,
                   lastScan, events, updaterVars, syncPC, haltPC, dispatched>>

\* CoordinatorServerList::startUpdater, from updaterPC and stopUpdater to
\* what it leaves them as.
startUpdater(pc, stop) ==
    IF pc = "none"
    THEN [pc |-> "loop", stop |-> FALSE]
    ELSE [pc |-> NotifiedUpdater(pc, TRUE), stop |-> stop]

\* A thread that starts has a pool of empty slots.
StartedThread ==
    dispatched' = IF updaterPC = "none"
                  THEN [i \in 0..(concurrentRPCs - 1) |-> NoDispatch]
                  ELSE dispatched

StartUpdater ==
    /\ LET r == startUpdater(updaterPC, stopUpdater)
       IN  /\ updaterPC' = r.pc
           /\ stopUpdater' = r.stop
    /\ StartedThread
    /\ UNCHANGED <<listVars, updateSlots, slotIndex, noActiveRpcs, callerVars,
                   issued>>

\* sync(): its call of startUpdater().
SyncStart(c) ==
    /\ syncPC[c] \in {"idle", "returned"}
    /\ LET r == startUpdater(updaterPC, stopUpdater)
       IN  /\ updaterPC' = r.pc
           /\ stopUpdater' = r.stop
    /\ syncPC' = [syncPC EXCEPT ![c] = "check"]
    /\ StartedThread
    /\ UNCHANGED <<listVars, updateSlots, slotIndex, noActiveRpcs, haltPC,
                   genPC, genIndex, issued>>

\* sync(): one test of its while loop, under the lock; it returns or waits.
SyncCheck(c) ==
    /\ syncPC[c] = "check"
    /\ syncPC' = [syncPC EXCEPT ![c] = IF isClusterUpToDate(State)
                                       THEN "returned" ELSE "waiting"]
    /\ UNCHANGED <<listVars, updaterVars, haltPC, genPC, genIndex, issued,
                   dispatched>>

\* A condition variable may wake its waiter with no notification.
SyncSpuriousWake(c) ==
    /\ syncPC[c] = "waiting"
    /\ syncPC' = [syncPC EXCEPT ![c] = "check"]
    /\ UNCHANGED <<listVars, updaterVars, haltPC, genPC, genIndex, issued,
                   dispatched>>

\* haltUpdater(): its locked part.
HaltSignal ==
    /\ haltPC = "idle"
    /\ stopUpdater' = TRUE
    /\ updaterPC' = NotifiedUpdater(updaterPC, TRUE)
    /\ haltPC' = "join"
    /\ UNCHANGED <<listVars, updateSlots, slotIndex, noActiveRpcs, syncPC,
                   genPC, genIndex, issued,
                   dispatched>>

\* haltUpdater(): the join, when there is a thread, and its destruction.
HaltJoin ==
    /\ haltPC = "join"
    /\ updaterPC \in {"none", "exited"}
    /\ updaterPC' = "none"
    /\ haltPC' = "idle"
    /\ UNCHANGED <<listVars, stopUpdater, updateSlots, slotIndex,
                   noActiveRpcs, syncPC, genPC, genIndex, issued,
                   dispatched>>

\* ------------------------------------------------------------------ updateLoop
\* The test of while (!stopUpdater).
UpdaterLoop ==
    /\ updaterPC = "loop"
    /\ updaterPC' = IF stopUpdater THEN "cancel" ELSE "dispatch"
    /\ slotIndex' = 0
    /\ noActiveRpcs' = IF stopUpdater THEN noActiveRpcs ELSE TRUE
    /\ UNCHANGED <<listVars, stopUpdater, updateSlots, callerVars, issued,
                   dispatched>>

\* dispatchRpc returning false after loadNextUpdate started an RPC, so that
\* the pass counts the slot as idle.
Loaded_ReportsIdle(r) ==
    /\ Install(r.state)
    /\ syncPC' = NotifiedSync(syncPC, r.state.wakeSync)
    /\ updateSlots' = IF r.loaded
                      THEN [updateSlots EXCEPT ![slotIndex] = r.slot]
                      ELSE updateSlots
    /\ noActiveRpcs' = noActiveRpcs
    /\ updaterPC' = IF r.fatal THEN "fatal" ELSE "dispatch"
    /\ slotIndex' = IF r.fatal THEN slotIndex ELSE slotIndex + 1
    /\ dispatched' =
         IF r.loaded
         THEN [dispatched EXCEPT ![slotIndex] =
                 [serverId |-> r.slot.serverId,
                  version |-> serverList[r.slot.serverId.index].entry[1]
                                  .serverListVersion,
                  fate |-> "inflight"]]
         ELSE dispatched
    /\ UNCHANGED <<stopUpdater, haltPC, genPC, genIndex, issued>>

\* dispatchRpc once loadNextUpdate has returned r, for updateSlots[slotIndex].
Loaded(r) ==
    /\ Install(r.state)
    /\ syncPC' = NotifiedSync(syncPC, r.state.wakeSync)
    /\ updateSlots' = IF r.loaded
                      THEN [updateSlots EXCEPT ![slotIndex] = r.slot]
                      ELSE updateSlots
    /\ noActiveRpcs' = IF r.loaded THEN FALSE ELSE noActiveRpcs
    /\ updaterPC' = IF r.fatal THEN "fatal" ELSE "dispatch"
    /\ slotIndex' = IF r.fatal THEN slotIndex ELSE slotIndex + 1
    /\ dispatched' =
         IF r.loaded
         THEN [dispatched EXCEPT ![slotIndex] =
                 [serverId |-> r.slot.serverId,
                  version |-> serverList[r.slot.serverId.index].entry[1]
                                  .serverListVersion,
                  fate |-> "inflight"]]
         ELSE dispatched
    /\ UNCHANGED <<stopUpdater, haltPC, genPC, genIndex, issued>>

\* dispatchRpc from its call of loadNextUpdate on.
LoadStep ==
    \E r \in {loadNextUpdate(State)} : Loaded(r)

\* The for loop of updateLoop: its test, and dispatchRpc on a slot that holds
\* an RPC, up to the end of updateEntryVersion, when the RPC is found as
\* outcome says.
UpdaterDispatchOutcome(outcome) ==
    /\ updaterPC = "dispatch"
    /\ slotIndex < concurrentRPCs
    /\ ~stopUpdater
    /\ updateSlots[slotIndex].rpc
    /\ outcome \in RpcOutcomes(serverList, updateSlots[slotIndex].serverId)
    /\ LET slot == updateSlots[slotIndex]
           newVersion == IF outcome = "success"
                         THEN slot.protobuf.version
                         ELSE slot.originalVersion
       IN  IF outcome = "pending"
           THEN /\ noActiveRpcs' = FALSE
                /\ slotIndex' = slotIndex + 1
                /\ UNCHANGED <<listVars, stopUpdater, updaterPC, updateSlots,
                               callerVars, issued,
                   dispatched>>
           ELSE /\ Install(updateEntryVersion(State, slot.serverId,
                                              newVersion))
                /\ updateSlots' = [updateSlots EXCEPT ![slotIndex] = NoRpc]
                /\ dispatched' =
                      [dispatched EXCEPT ![slotIndex] = NoDispatch]
                /\ updaterPC' = "load"
                /\ UNCHANGED <<stopUpdater, slotIndex, noActiveRpcs,
                               callerVars, issued>>

UpdaterDispatch ==
    \E outcome \in {"pending", "success", "timeout", "serverNotUp"} :
        UpdaterDispatchOutcome(outcome)

\* dispatchRpc on a slot that holds no RPC.
UpdaterDispatchIdle ==
    /\ updaterPC = "dispatch"
    /\ slotIndex < concurrentRPCs
    /\ ~stopUpdater
    /\ ~updateSlots[slotIndex].rpc
    /\ LoadStep

\* dispatchRpc after updateEntryVersion released the lock.
UpdaterLoad ==
    /\ updaterPC = "load"
    /\ LoadStep

\* The for loop ends; if (noActiveRpcs) takes the lock.
UpdaterEndPass ==
    /\ updaterPC = "dispatch"
    /\ (slotIndex >= concurrentRPCs \/ stopUpdater)
    /\ updaterPC' = IF noActiveRpcs THEN "waitLoop" ELSE "loop"
    /\ UNCHANGED <<listVars, stopUpdater, updateSlots, slotIndex,
                   noActiveRpcs, callerVars, issued,
                   dispatched>>

\* One test of while (!hasUpdates(lock) && !stopUpdater) and, when it
\* passes, the body up to the wait.
UpdaterWaitLoop ==
    /\ updaterPC = "waitLoop"
    /\ \E r \in {hasUpdates(State)} :
       LET sleep == ~r.found /\ ~stopUpdater
       IN  /\ Install(r.state)
           /\ syncPC' = NotifiedSync(syncPC, r.state.wakeSync \/ sleep)
           /\ updaterPC' = IF sleep THEN "waiting" ELSE "loop"
    /\ UNCHANGED <<stopUpdater, updateSlots, slotIndex, noActiveRpcs, haltPC,
                   genPC, genIndex, issued,
                   dispatched>>

UpdaterSpuriousWake ==
    /\ updaterPC = "waiting"
    /\ updaterPC' = "waitLoop"
    /\ UNCHANGED <<listVars, stopUpdater, updateSlots, slotIndex,
                   noActiveRpcs, callerVars, issued,
                   dispatched>>

\* After the loop: cancel the RPC of one slot and revert its entry.
UpdaterCancel ==
    /\ updaterPC = "cancel"
    /\ slotIndex < concurrentRPCs
    /\ LET slot == updateSlots[slotIndex]
       IN  IF slot.rpc
           THEN /\ Install(updateEntryVersion(State, slot.serverId,
                                              slot.originalVersion))
                /\ updateSlots' = [updateSlots EXCEPT ![slotIndex] = NoRpc]
                /\ dispatched' =
                      [dispatched EXCEPT ![slotIndex] =
                          [serverId |-> dispatched[slotIndex].serverId,
                           version |-> dispatched[slotIndex].version,
                           fate |-> "cancelled"]]
           ELSE UNCHANGED <<listVars, updateSlots, dispatched>>
    /\ slotIndex' = slotIndex + 1
    /\ UNCHANGED <<stopUpdater, updaterPC, noActiveRpcs, callerVars, issued>>

\* updateLoop returns.
UpdaterExit ==
    /\ updaterPC = "cancel"
    /\ slotIndex >= concurrentRPCs
    /\ updaterPC' = "exited"
    /\ UNCHANGED <<listVars, stopUpdater, updateSlots, slotIndex,
                   noActiveRpcs, callerVars, issued,
                   dispatched>>

\* ------------------------------------------------------------------ Spec
\* updateLoop inside its while (!stopUpdater) ...
UpdaterWork ==
    \/ UpdaterLoop
    \/ UpdaterDispatch
    \/ UpdaterDispatchIdle
    \/ UpdaterLoad
    \/ UpdaterEndPass
    \/ UpdaterWaitLoop

\* ... and all of it.
UpdaterStep ==
    \/ UpdaterWork
    \/ UpdaterCancel
    \/ UpdaterExit

\* add, crashed and remove from callers that name generations up to
\* maxGeneration and stop at maxVersion commits.
Mutations(maxGeneration, maxVersion) ==
    /\ version < maxVersion
    /\ \/ \E id \in ServerIds(maxGeneration), mask \in ServiceMasks :
             Add(id, mask)
       \/ \E id \in ServerIds(maxGeneration) : Crashed(id)
       \/ \E id \in ServerIds(maxGeneration) : Remove(id)

\* generateUniqueId from callers that stop at maxIssued identifiers.
Generates(maxGeneration, maxIssued) ==
    \/ /\ Len(issued) < maxIssued
       /\ GenerateFirstFree(maxGeneration)
    \/ GenerateConstruct

Next ==
    \/ Mutations(MaxGeneration, MaxVersion)
    \/ Generates(MaxGeneration, MaxIssued)
    \/ StartUpdater
    \/ \E c \in SyncCallers : SyncStart(c)
    \/ \E c \in SyncCallers : SyncCheck(c)
    \/ \E c \in SyncCallers : SyncSpuriousWake(c)
    \/ HaltSignal
    \/ HaltJoin
    \/ UpdaterStep
    \/ UpdaterSpuriousWake

Spec == Init /\ [][Next]_vars

\* The callers alone: the runs in which the updater thread is not scheduled,
\* with room for more calls.
NextCalls ==
    \/ Mutations(CallsMaxGeneration, CallsMaxVersion)
    \/ Generates(CallsMaxGeneration, CallsMaxIssued)

SpecCalls == Init /\ [][NextCalls]_vars

\* The identifiers the callers of the id-keyed operations name: those of
\* the entries, of other generations, of empty slots and of slots past the
\* end of the table.
KeyedIds ==
    {ServerId(i, g) : i \in 0..(MaxIndex + 1), g \in 0..(MaxGeneration + 1)}

\* The setters and at(), from callers that name any identifier.
Setters ==
    \/ \E id \in KeyedIds : At(id)
    \/ \E id \in KeyedIds, v \in 1..MaxSegmentId : SetMinOpenSegmentId(id, v)
    \/ \E id \in KeyedIds, v \in 1..MaxReplicationId : SetReplicationId(id, v)
    \/ \E id \in KeyedIds, v \in 1..MaxEntryId : AddServerInfoLogId(id, v)
    \/ \E id \in KeyedIds, v \in 1..MaxEntryId : AddServerUpdateLogId(id, v)

\* The callers of add, crashed, remove and of the id-keyed operations; the
\* updater thread is not scheduled.
NextSetters ==
    \/ Mutations(MaxGeneration, MaxVersion)
    \/ Setters

SpecSetters == Init /\ [][NextSetters]_vars

\* The setters, from callers that name the identifiers in ids.
SettersOf(ids) ==
    \/ \E id \in ids, v \in 1..MaxSegmentId : SetMinOpenSegmentId(id, v)
    \/ \E id \in ids, v \in 1..MaxReplicationId : SetReplicationId(id, v)
    \/ \E id \in ids, v \in 1..MaxEntryId : AddServerInfoLogId(id, v)
    \/ \E id \in ids, v \in 1..MaxEntryId : AddServerUpdateLogId(id, v)

\* The setters called for one server while the updater thread sends the
\* list out and the callers change the membership.
NextFrame ==
    \/ Mutations(MaxGeneration, MaxVersion)
    \/ SettersOf({ServerId(1, 0)})
    \/ UpdaterWork
    \/ UpdaterSpuriousWake

SpecFrame == Init /\ [][NextFrame]_vars

\* The RPC of slot k is found complete and successful.
RpcSucceeds(k) == slotIndex = k /\ UpdaterDispatchOutcome("success")

\* Of the looks the updater takes at an RPC that is out, one finds it
\* complete.
RpcFairness ==
    \A k \in 0..(concurrentRPCs - 1) : SF_vars(RpcSucceeds(k))

\* Nobody halts the updater: callers change the membership and call sync(),
\* whose thread is scheduled as the updater's is.
NextSync ==
    \/ Mutations(MaxGeneration, MaxVersion)
    \/ \E c \in SyncCallers : SyncStart(c)
    \/ \E c \in SyncCallers : SyncCheck(c)
    \/ \E c \in SyncCallers : SyncSpuriousWake(c)
    \/ UpdaterWork
    \/ UpdaterSpuriousWake

\* The updater thread and the thread in sync() are scheduled again and again.
SpecSync ==
    /\ Init
    /\ [][NextSync]_vars
    /\ WF_vars(UpdaterWork)
    /\ RpcFairness
    /\ \A c \in SyncCallers : WF_vars(SyncCheck(c))

\* Callers change the membership and halt the updater; the thread that
\* called haltUpdater() is scheduled as the updater's is.
NextHalt ==
    \/ Mutations(MaxGeneration, MaxVersion)
    \/ StartUpdater
    \/ HaltSignal
    \/ HaltJoin
    \/ UpdaterStep
    \/ UpdaterSpuriousWake

SpecHalt ==
    /\ Init
    /\ [][NextHalt]_vars
    /\ WF_vars(UpdaterStep)
    /\ RpcFairness
    /\ WF_vars(HaltJoin)

\* ------------------------------------------------------------------ claims
\* What the list holds in slot index, as a set of at most one entry.
EntriesAt(list, index) ==
    IF index \in DOMAIN list /\ list[index].entry # << >>
    THEN {list[index].entry[1]} ELSE {}

AllEntries(list) == UNION {EntriesAt(list, i) : i \in DOMAIN list}

\* How often the trackers were handed event kind for serverId.
EventCount(log, kind, serverId) ==
    Cardinality({k \in 1..Len(log) : log[k] = Event(kind, serverId)})

id1 == ServerId(1, 0)

\* The entries that get the updates: UP and with the membership service.
Members(list) == {e \in AllEntries(list) : IsMember(e)}

\* sync() called by c returns in this step.
SyncReturns(c) == syncPC[c] = "check" /\ syncPC'[c] = "returned"

\* C1: when a call of sync() returns, every UP entry with the membership
\* service has serverListVersion equal to version and is not being updated.
C1_SyncReturnsUpToDate ==
    [][\A c \in SyncCallers :
          SyncReturns(c) =>
              \A e \in AllEntries(serverList') :
                  (e.status = "UP" /\ "MEMBERSHIP_SERVICE" \in e.services)
                      => /\ e.serverListVersion = version'
                         /\ ~e.isBeingUpdated]_vars

\* C1 happens: sync() has returned on a list with a member that got an
\* update from the updater.
C1_Witness ==
    \E c \in SyncCallers :
        /\ syncPC[c] = "returned"
        /\ version = MaxVersion
        /\ \E e \in Members(serverList) : e.serverListVersion = version

\* C3 as stated: when a call of sync() returns, updates is empty.
C3_HistoryEmptyAtSyncReturn ==
    [][\A c \in SyncCallers : SyncReturns(c) => updates' = << >>]_vars

\* C3 as amended: when a call of sync() returns, updates may still hold
\* batches (hasUpdates prunes only when a scan passes slot 0); the batches it
\* holds are the last committed ones, in order and up to version, and each of
\* them has been acknowledged by every UP entry with the membership service.
C3_HistoryAcknowledgedAtSyncReturn ==
    [][\A c \in SyncCallers :
          SyncReturns(c) =>
              /\ \A k \in 1..Len(updates') :
                    updates'[k].version = version' - Len(updates') + k
              /\ \A k \in 1..Len(updates'), e \in Members(serverList') :
                    updates'[k].version <= e.serverListVersion]_vars

\* C3 happens: sync() has returned on a list with a member while updates
\* holds a batch.
C3_Witness ==
    \E c \in SyncCallers :
        /\ syncPC[c] = "returned"
        /\ updates # << >>
        /\ \E e \in Members(serverList) :
              e.serverListVersion = updates[Len(updates)].version

\* The slots of the updater that hold an RPC.
ActiveSlots == {k \in DOMAIN updateSlots : updateSlots[k].rpc}

\* C4: at most concurrentRPCs entries are being updated, at most
\* concurrentRPCs RPCs are out, and no two RPCs that are out are for the same
\* server.
C4_BoundedDistinctRpcs ==
    /\ Cardinality({e \in AllEntries(serverList) : e.isBeingUpdated})
          <= concurrentRPCs
    /\ Cardinality(ActiveSlots) <= concurrentRPCs
    /\ \A j, k \in ActiveSlots :
          updateSlots[j].serverId = updateSlots[k].serverId => j = k

\* C5: of two identifiers generateUniqueId() returned for the same slot index,
\* the one returned later has the strictly greater generation number.
C5_LaterIdHasGreaterGeneration ==
    \A j, k \in 1..Len(issued) :
        (j < k /\ issued[j].index = issued[k].index)
            => issued[j].generation < issued[k].generation

\* C6: numberOfMasters is the number of UP entries with the master service
\* and numberOfBackups the number of UP entries with the backup service.
C6_CountsMatchUpEntries ==
    /\ numberOfMasters =
         Cardinality({e \in AllEntries(serverList) :
                         e.status = "UP" /\ isMaster(e)})
    /\ numberOfBackups =
         Cardinality({e \in AllEntries(serverList) :
                         e.status = "UP" /\ isBackup(e)})

\* The members of the list that the claims compare between two states.
Observable(s) ==
    [serverList |-> s.serverList, numberOfMasters |-> s.numberOfMasters,
     numberOfBackups |-> s.numberOfBackups, version |-> s.version,
     update |-> s.update, updates |-> s.updates, lastScan |-> s.lastScan,
     events |-> s.events]

\* C7: for an UP entry, crashed(id) called twice leaves the list as crashed(id)
\* called once leaves it, and the trackers get one SERVER_CRASHED for id out
\* of the two calls.
C7_CrashedIdempotent ==
    \A e \in AllEntries(serverList) :
        e.status = "UP" =>
            LET once == crashed(State, e.serverId)
                twice == crashed(once, e.serverId)
            IN  /\ Observable(twice) = Observable(once)
                /\ ~twice.failed
                /\ EventCount(twice.events, "SERVER_CRASHED", e.serverId)
                     = EventCount(events, "SERVER_CRASHED", e.serverId) + 1

\* C7 happens: crashed() has run on an entry, and a second crashed() on it
\* would find it CRASHED.
C7_Witness ==
    \E e \in AllEntries(serverList) :
        /\ e.status = "CRASHED"
        /\ EventCount(events, "SERVER_CRASHED", e.serverId) = 1
        /\ "MASTER_SERVICE" \in e.services

\* haltUpdater() returns in this step.
HaltReturns == haltPC = "join" /\ haltPC' = "idle"

\* C8: a call of haltUpdater() that has set stopUpdater returns.
C8_HaltEventuallyReturns ==
    (haltPC = "join") ~> (haltPC = "idle")

\* C8, what it says of the state haltUpdater() returns in: no RPC is out, no
\* entry is being updated, and the entry of each RPC that was cancelled has
\* the serverListVersion it had when that RPC was loaded.
HaltCancelsAndReverts ==
    [][HaltReturns =>
          /\ ActiveSlots = {}
          /\ \A e \in AllEntries(serverList') : ~e.isBeingUpdated
          /\ \A k \in DOMAIN dispatched :
                (dispatched[k].fate = "cancelled"
                   /\ HasEntry(serverList', dispatched[k].serverId))
                    => serverList'[dispatched[k].serverId.index].entry[1]
                           .serverListVersion = dispatched[k].version]_vars

\* The updater thread has not died of an exception.
UpdaterNotFatal == updaterPC # "fatal"

\* haltUpdater() returns unless the updater thread died; this does not hold
\* either: startUpdater() between the two halves of haltUpdater() clears
\* stopUpdater, and the join waits for a thread nobody stops.
HaltReturnsUnlessFatal ==
    (haltPC = "join") ~> (haltPC = "idle" \/ updaterPC = "fatal")

\* C2: a call of sync() that is under way returns.
C2_SyncEventuallyReturns ==
    \A c \in SyncCallers :
        (syncPC[c] \in {"check", "waiting"}) ~> (syncPC[c] = "returned")

\* A call of sync() returns in the runs in which the updater thread does not
\* die: no wake-up is lost between the updater and sync().
SyncReturnsUnlessFatal ==
    \A c \in SyncCallers :
        (syncPC[c] \in {"check", "waiting"})
            ~> (syncPC[c] = "returned" \/ updaterPC = "fatal")

\* The list after add(id1) on the empty list, and nothing else that the
\* trackers heard of.
AfterAddId1 == events = <<Event("SERVER_ADDED", id1)>>

\* C9 as stated: add(id1) on the empty list, then remove(id1) on the still-UP
\* entry, leaves version 3.
C9_VersionThreeAfterAddRemove ==
    [][(AfterAddId1 /\ Remove(id1)) => version' = 3]_vars

\* C9 as amended: add(id1) on the empty list, then remove(id1) on the still-UP
\* entry, leaves version 2: one batch for the add and one batch that carries
\* both the CRASHED and the DOWN record.
C9_VersionTwoAfterAddRemove ==
    [][(AfterAddId1 /\ Remove(id1))
          => /\ version' = 2
             /\ Len(updates') = 2
             /\ Len(updates'[2].servers) = 2]_vars

\* C9 happens: the two calls were made and version is 2.
C9_Witness ==
    /\ events = <<Event("SERVER_ADDED", id1), Event("SERVER_CRASHED", id1),
                  Event("SERVER_REMOVED", id1)>>
    /\ version = 2

\* C10: add(id1), then remove(id1) on the still-UP entry: the trackers are
\* handed SERVER_ADDED, SERVER_CRASHED, SERVER_REMOVED for id1, in this order,
\* and nothing else.
C10_AddRemoveEventOrder ==
    [][(AfterAddId1 /\ Remove(id1))
          => events' = <<Event("SERVER_ADDED", id1),
                         Event("SERVER_CRASHED", id1),
                         Event("SERVER_REMOVED", id1)>>]_vars

\* C10 happens: the three events were handed out by the two calls and the
\* entry is gone.
C10_Witness ==
    /\ Len(events) = 3
    /\ events[3] = Event("SERVER_REMOVED", id1)
    /\ Len(updates) = 2
    /\ ~HasEntry(serverList, id1)

\* The batch remove(serverId) commits for entry: the CRASHED record when the
\* entry was UP, and the DOWN record.
RemoveBatch(entry, v) ==
    [version |-> v,
     servers |->
        (IF entry.status = "UP"
         THEN <<Serialize([entry EXCEPT !.status = "CRASHED"])>>
         ELSE << >>)
        \o <<Serialize([entry EXCEPT !.status = "DOWN"])>>]

\* C11 as stated: remove(id) on an entry of the list hands the trackers one
\* event, SERVER_REMOVED, whether the entry was UP or CRASHED, and commits
\* the records CRASHED and DOWN for an UP entry, DOWN for a CRASHED one.
C11_RemoveFiresOnlyRemoved ==
    [][\A id \in ServerIds(CallsMaxGeneration) :
          (HasEntry(serverList, id) /\ Remove(id)) =>
              /\ events' = Append(events, Event("SERVER_REMOVED", id))
              /\ updates' =
                   Append(updates,
                          RemoveBatch(serverList[id.index].entry[1],
                                      version + 1))]_vars

\* C11 as amended: the records are as stated; the events are SERVER_REMOVED
\* alone for a CRASHED entry and SERVER_CRASHED, then SERVER_REMOVED, for an
\* UP entry (remove calls crashed, which notifies the trackers).
C11_RemoveFiresCrashedWhenUp ==
    [][\A id \in ServerIds(CallsMaxGeneration) :
          (HasEntry(serverList, id) /\ Remove(id)) =>
              LET entry == serverList[id.index].entry[1]
              IN  /\ events' =
                       events
                       \o (IF entry.status = "UP"
                           THEN <<Event("SERVER_CRASHED", id)>> ELSE << >>)
                       \o <<Event("SERVER_REMOVED", id)>>
                  /\ updates' =
                       Append(updates, RemoveBatch(entry, version + 1))]_vars

\* C11 happens: remove() has run on an UP entry and on a CRASHED entry.
C11_Witness ==
    \E a, b \in ServerIds(CallsMaxGeneration) :
        \E j, k \in 1..Len(updates) :
            /\ Len(updates[j].servers) = 2
            /\ updates[j].servers[2].serverId = a
            /\ updates[j].servers[2].status = "DOWN"
            /\ updates[k].servers[1].serverId = b
            /\ updates[k].servers[1].status = "DOWN"

\* The last event of log that is about serverId; "NONE" when there is none.
LastEvent(log, serverId) ==
    LET about == {k \in 1..Len(log) : log[k].serverId = serverId}
    IN  IF about = {} THEN "NONE"
        ELSE log[CHOOSE k \in about : \A j \in about : j <= k].event

\* A batch of deque carries a record of serverId with this status.
HasRecord(deque, serverId, status) ==
    \E k \in 1..Len(deque) : \E n \in 1..Len(deque[k].servers) :
        /\ deque[k].servers[n].serverId = serverId
        /\ deque[k].servers[n].status = status

\* C12: when add() installs an entry in a slot that another incarnation X
\* held before, the DOWN record of X is in a batch committed before the batch
\* of the add, and the trackers were handed SERVER_REMOVED for X before
\* SERVER_ADDED for the new entry.
C12_DepartureBeforeArrival ==
    [][\A id \in ServerIds(CallsMaxGeneration), mask \in ServiceMasks :
          Add(id, mask) =>
              \A X \in ServerIds(CallsMaxGeneration) :
                  (/\ X.index = id.index
                   /\ X # id
                   /\ EventCount(events, "SERVER_ADDED", X) > 0)
                      => /\ LastEvent(events, X) = "SERVER_REMOVED"
                         /\ HasRecord(updates, X, "DOWN")]_vars

\* C13: the accesses to serverList are serialized: while a call of
\* generateUniqueId() is between firstFreeIndex() and its use of the slot, no
\* other call changes serverList; and generateUniqueId() never returns an
\* identifier it returned before.
C13_SerializedUniqueIds ==
    [][/\ (genPC = "construct" /\ genPC' = "construct")
            => serverList' = serverList
       /\ \A j, k \in 1..Len(issued') :
             issued'[j] = issued'[k] => j = k]_vars

\* generateUniqueId() run from start to end on list.
generateUniqueId(list) ==
    LET free == firstFreeIndex(list)
    IN  generateUniqueIdAt(free.serverList, free.index)

\* C14: in every state, for the identifier generateUniqueId() would return,
\* generateUniqueId() followed by add(id, ...) leaves the list as add(id, ...)
\* alone leaves it: slots with their nextGenerationNumber, counts, update,
\* updates, version and events.
C14_GenerateThenAddEqualsAdd ==
    \A mask \in ServiceMasks :
        LET generated == generateUniqueId(serverList)
            viaGenerate == add([State EXCEPT
                                   !.serverList = generated.serverList],
                               generated.id, mask)
            direct == add(State, generated.id, mask)
        IN  Observable(viaGenerate) = Observable(direct)

\* C14 happens: an identifier generateUniqueId() returned was then added, in
\* a list that holds another entry.
C14_Witness ==
    \E k \in 1..Len(issued) :
        /\ HasEntry(serverList, issued[k])
        /\ serverList[issued[k].index].entry[1].services # {}
        /\ EventCount(events, "SERVER_ADDED", issued[k]) = 1
        /\ Cardinality(AllEntries(serverList)) = 2

\* The call that ended in state r threw and left the list as it is.
FailsUnchanged(r) ==
    r.failed /\ Observable(r) = Observable(State)

\* C15: at, crashed, remove, setMinOpenSegmentId, setReplicationId,
\* addServerInfoLogId and addServerUpdateLogId, called with an identifier
\* whose index is past the table, whose slot is empty or whose slot holds
\* another generation, throw and leave serverList, the counts, update,
\* version, updates and events as they were.
C15_AbsentIdFailsUnchanged ==
    \A id \in KeyedIds :
        ~HasEntry(serverList, id) =>
            /\ FailsUnchanged(at(State, id))
            /\ FailsUnchanged(crashed(State, id))
            /\ FailsUnchanged(remove(State, id))
            /\ \A v \in 1..MaxSegmentId :
                  FailsUnchanged(setMinOpenSegmentId(State, id, v))
            /\ \A v \in 1..MaxReplicationId :
                  FailsUnchanged(setReplicationId(State, id, v))
            /\ \A v \in 1..MaxEntryId :
                  /\ FailsUnchanged(addServerInfoLogId(State, id, v))
                  /\ FailsUnchanged(addServerUpdateLogId(State, id, v))

\* C15 happens: the table ends before index MaxIndex + 1, its last slot
\* holds an entry that the setters were called on and that a caller can name
\* with another generation, and the slot before it is empty.
C15_Witness ==
    /\ Size(serverList) = MaxIndex + 1
    /\ HasEntry(serverList, ServerId(MaxIndex, 0))
    /\ serverList[MaxIndex].entry[1].minOpenSegmentId > 0
    /\ serverList[MaxIndex].entry[1].replicationId > 0
    /\ serverList[MaxIndex].entry[1].serverInfoLogId > 0
    /\ serverList[MaxIndex].entry[1].serverUpdateLogId > 0
    /\ serverList[MaxIndex - 1].entry = << >>

\* The minOpenSegmentId that list has for serverId.
MinOpenSegmentId(list, serverId) ==
    list[serverId.index].entry[1].minOpenSegmentId

\* C16: for every entry and every value v, setMinOpenSegmentId(id, v) stores
\* the larger of the stored value and v, and with v not above the stored
\* value it changes nothing; three calls with a value, a lower one and a
\* higher one (10, 5, 20 in the small: 2, 1, MaxSegmentId) leave the highest.
C16_MinOpenSegmentIdMonotonic ==
    \A e \in AllEntries(serverList) :
        /\ \A v \in 1..MaxSegmentId :
              LET r == setMinOpenSegmentId(State, e.serverId, v)
              IN  /\ ~r.failed
                  /\ MinOpenSegmentId(r.serverList, e.serverId)
                       = IF e.minOpenSegmentId < v
                         THEN v ELSE e.minOpenSegmentId
                  /\ MinOpenSegmentId(r.serverList, e.serverId)
                       >= e.minOpenSegmentId
                  /\ v <= e.minOpenSegmentId
                       => Observable(r) = Observable(State)
        /\ LET first == setMinOpenSegmentId(State, e.serverId, 2)
               second == setMinOpenSegmentId(first, e.serverId, 1)
               third == setMinOpenSegmentId(second, e.serverId, MaxSegmentId)
           IN  /\ MinOpenSegmentId(second.serverList, e.serverId)
                    = MinOpenSegmentId(first.serverList, e.serverId)
               /\ MinOpenSegmentId(third.serverList, e.serverId)
                    = MaxSegmentId

\* C16 happens: setMinOpenSegmentId has raised the value of one entry to a
\* value in the middle, so that calls with lower and with higher values
\* meet it, and that of another entry to the highest.
C16_Witness ==
    \E d, e \in AllEntries(serverList) :
        /\ d.minOpenSegmentId = 2
        /\ e.minOpenSegmentId = MaxSegmentId

\* C17: no identifier generateUniqueId() returned has index 0, the call that
\* is under way has not chosen index 0, and a call made in the present state
\* of the table, the empty table included, would not return index 0.
C17_NeverIssuesIndexZero ==
    /\ \A k \in 1..Len(issued) : issued[k].index # 0
    /\ genPC = "construct" => genIndex # 0
    /\ generateUniqueId(serverList).id.index # 0

\* C17 happens: generateUniqueId() was called on the empty table and again
\* on tables with placeholders and entries in them.
C17_Witness ==
    /\ Len(issued) = CallsMaxIssued
    /\ issued[1] = ServerId(1, 0)
    /\ \E k \in 1..Len(issued) : issued[k].index = MaxIndex
    /\ \E e \in AllEntries(serverList) : e.services # {}

\* The updater thread is about to call loadNextUpdate.
AboutToLoad ==
    \/ updaterPC = "load"
    \/ /\ updaterPC = "dispatch"
       /\ slotIndex < concurrentRPCs
       /\ ~stopUpdater
       /\ ~updateSlots[slotIndex].rpc

\* C18: whenever loadNextUpdate selects an entry whose serverListVersion a
\* is not 0, updates is not empty and
\* updates.front().version <= a + 1 <= updates.back().version.
C18_PruningKeepsNeededBatches ==
    AboutToLoad =>
        \A scan \in {hasUpdates(State)} :
            scan.found =>
                LET deque == scan.state.updates
                    a == scan.state.serverList[scan.state.lastScan.searchIndex]
                             .entry[1].serverListVersion
                IN  a # 0 =>
                        /\ deque # << >>
                        /\ Head(deque).version <= a + 1
                        /\ a + 1 <= deque[Len(deque)].version

\* The serverListVersion values, other than 0, of the entries that get the
\* updates.
Acknowledged(list) ==
    {e.serverListVersion : e \in Members(list)} \ {0}

\* The least element of a non-empty set of numbers.
Least(S) == CHOOSE n \in S : \A m \in S : n <= m

Statuses(batch) ==
    [n \in 1..Len(batch.servers) |-> batch.servers[n].status]

ConsecutiveUpTo(deque, v) ==
    \A k \in 1..Len(deque) : deque[k].version = v - Len(deque) + k

\* C21: version never decreases; after every step the batches of updates
\* carry consecutive, increasing versions, the last of them version; and
\* version changes only by 1, in the step that appends the batch of the new
\* version.
C21_VersionsConsecutive ==
    [][/\ version' >= version
       /\ ConsecutiveUpTo(updates', version')
       /\ version' # version =>
             /\ version' = version + 1
             /\ updates' # << >>
             /\ updates'[Len(updates')].version = version'
             /\ updates'[Len(updates')].servers # << >>]_vars

\* C21 happens: batches were committed up to MaxVersion and a scan of the
\* updater has pruned all but the last, which an entry has yet to get.
C21_Witness ==
    /\ version = MaxVersion
    /\ Len(updates) = 1
    /\ updates[1].version = MaxVersion
    /\ \E e \in Members(serverList) : e.serverListVersion = MaxVersion - 1

\* C22: for every UP entry, remove(Lock&) appends to update the CRASHED
\* record of the entry and then its DOWN record, and the public remove()
\* commits the two in one batch, the only one it appends, under the one
\* version it adds; the entry is not in the list afterwards.
C22_RemoveCommitsCrashedThenDown ==
    \A e \in AllEntries(serverList) :
        e.status = "UP" =>
            LET records == <<Serialize([e EXCEPT !.status = "CRASHED"]),
                             Serialize([e EXCEPT !.status = "DOWN"])>>
                locked == removeLocked(State, e.serverId)
                r == remove(State, e.serverId)
            IN  /\ locked.update = update \o records
                /\ locked.version = version
                /\ locked.updates = updates
                /\ ~r.failed
                /\ r.update = << >>
                /\ r.version = version + 1
                /\ r.updates = Append(updates,
                                      [version |-> version + 1,
                                       servers |-> update \o records])
                /\ ~HasEntry(r.serverList, e.serverId)
                /\ EntriesAt(r.serverList, e.serverId.index) = {}

\* C22 happens: the last batch is that of a remove() on an UP entry, which
\* is gone, while another entry is in the list.
C22_Witness ==
    /\ updates # << >>
    /\ version = Len(updates)
    /\ AllEntries(serverList) # {}
    /\ LET batch == updates[Len(updates)]
       IN  /\ Len(batch.servers) = 2
           /\ batch.servers[1].status = "CRASHED"
           /\ batch.servers[2].status = "DOWN"
           /\ batch.servers[1].serverId = batch.servers[2].serverId
           /\ ~HasEntry(serverList, batch.servers[2].serverId)
           /\ "MASTER_SERVICE" \in batch.servers[2].services

\* State r is the present state but for member field of the entry of
\* serverId, which is value, and the call that led to r notified nobody.
OnlyFieldChanged(r, serverId, field, value) ==
    /\ ~r.failed /\ ~r.wakeUpdater /\ ~r.wakeSync
    /\ r.update = update /\ r.updates = updates /\ r.version = version
    /\ r.numberOfMasters = numberOfMasters
    /\ r.numberOfBackups = numberOfBackups
    /\ r.lastScan = lastScan
    /\ r.events = events
    /\ DOMAIN r.serverList = DOMAIN serverList
    /\ \A i \in DOMAIN serverList :
          /\ r.serverList[i].nextGenerationNumber
               = serverList[i].nextGenerationNumber
          /\ Len(r.serverList[i].entry) = Len(serverList[i].entry)
          /\ \A before \in EntriesAt(serverList, i) :
                LET after == r.serverList[i].entry[1]
                IN  IF before.serverId = serverId
                    THEN /\ after[field] = value
                         /\ [after EXCEPT ![field] = before[field]] = before
                    ELSE after = before

\* C23: setMinOpenSegmentId, setReplicationId, addServerInfoLogId and
\* addServerUpdateLogId, called for an entry of the list, change the one
\* member of that entry they are named after and nothing else: update,
\* updates, version, the counts, lastScan with its noUpdatesFound, events and
\* every other member of every entry stay, and no condition variable is
\* notified.
C23_SettersChangeOneField ==
    \A e \in AllEntries(serverList) :
        /\ \A v \in 1..MaxSegmentId :
              OnlyFieldChanged(setMinOpenSegmentId(State, e.serverId, v),
                               e.serverId, "minOpenSegmentId",
                               IF e.minOpenSegmentId < v
                               THEN v ELSE e.minOpenSegmentId)
        /\ \A v \in 1..MaxReplicationId :
              OnlyFieldChanged(setReplicationId(State, e.serverId, v),
                               e.serverId, "replicationId", v)
        /\ \A v \in 1..MaxEntryId :
              /\ OnlyFieldChanged(addServerInfoLogId(State, e.serverId, v),
                                  e.serverId, "serverInfoLogId", v)
              /\ OnlyFieldChanged(addServerUpdateLogId(State, e.serverId, v),
                                  e.serverId, "serverUpdateLogId", v)

\* C23 happens: the four setters were called for an entry that is being
\* updated, next to an entry that has the present version, after a scan that
\* found nothing more to send.
C23_Witness ==
    /\ HasEntry(serverList, id1)
    /\ serverList[1].entry[1].minOpenSegmentId = MaxSegmentId
    /\ serverList[1].entry[1].replicationId > 0
    /\ serverList[1].entry[1].serverInfoLogId > 0
    /\ serverList[1].entry[1].serverUpdateLogId > 0
    /\ serverList[1].entry[1].isBeingUpdated
    /\ lastScan.noUpdatesFound
    /\ \E e \in Members(serverList) :
          e.serverId # id1 /\ e.serverListVersion = version

\* The updater finds the RPC of the slot it is at timed out, or failed with
\* ServerNotUpException.
RpcFails ==
    \/ UpdaterDispatchOutcome("timeout")
    \/ UpdaterDispatchOutcome("serverNotUp")

\* C24: when the updater finds an RPC timed out or failed with
\* ServerNotUpException, the entry of its server, if the list has it, gets
\* the serverListVersion it had when the RPC was loaded and is no longer
\* being updated, and if it is UP with the membership service and not at
\* version, noUpdatesFound is false and the next hasUpdates returns true;
\* if the list does not have the entry, nothing under the mutex changes.
C24_FailedRpcReverts ==
    [][RpcFails =>
          LET id == updateSlots[slotIndex].serverId
          IN  IF HasEntry(serverList, id)
              THEN LET after == serverList'[id.index].entry[1]
                   IN  /\ HasEntry(serverList', id)
                       /\ after.serverListVersion
                            = dispatched[slotIndex].version
                       /\ ~after.isBeingUpdated
                       /\ (IsMember(after)
                             /\ after.serverListVersion # version')
                            => /\ ~lastScan'.noUpdatesFound
                               /\ hasUpdates(State').found
              ELSE UNCHANGED listVars]_vars

\* C24 happens: the one entry that was ever added is back at version 0 and
\* not being updated right after the updater dealt with the RPC of a slot,
\* which a completed RPC would not leave so: the RPC timed out.
C24_Witness ==
    /\ updaterPC = "load"
    /\ events = <<Event("SERVER_ADDED", id1)>>
    /\ HasEntry(serverList, id1)
    /\ IsMember(serverList[1].entry[1])
    /\ serverList[1].entry[1].serverListVersion = 0
    /\ ~serverList[1].entry[1].isBeingUpdated
    /\ ~lastScan.noUpdatesFound
    /\ ActiveSlots = {}

\* The step adds 1 to version and appends one batch, which has records.
CommitsOneBatch ==
    /\ version' = version + 1
    /\ Len(updates') = Len(updates) + 1
    /\ SubSeq(updates', 1, Len(updates)) = updates
    /\ updates'[Len(updates')].version = version'
    /\ updates'[Len(updates')].servers # << >>

\* The step commits nothing.
CommitsNothing ==
    version' = version /\ updates' = updates

\* The public crashed() on a CRASHED entry and on an identifier that is not
\* in the list, as calls on the present state.
CrashedCommitsNothing ==
    \A id \in ServerIds(CallsMaxGeneration) :
        (~HasEntry(serverList, id)
           \/ serverList[id.index].entry[1].status = "CRASHED")
            => LET r == crashed(State, id)
               IN  /\ r.version = version
                   /\ r.updates = updates
                   /\ r.update = << >>

\* C25: add(), crashed() on an UP entry and remove() on an entry add 1 to
\* version and append one batch; crashed() on a CRASHED entry and the calls
\* that throw leave version and updates alone; update is empty after every
\* call, and version is the number of batches committed.
C25_OneBatchPerCommit ==
    [][/\ update' = << >>
       /\ version' = Len(updates')
       /\ \A id \in ServerIds(CallsMaxGeneration) :
             /\ \A mask \in ServiceMasks : Add(id, mask) => CommitsOneBatch
             /\ Crashed(id) =>
                   IF HasEntry(serverList, id)
                      /\ serverList[id.index].entry[1].status = "UP"
                   THEN CommitsOneBatch ELSE CommitsNothing
             /\ Remove(id) =>
                   IF HasEntry(serverList, id)
                   THEN CommitsOneBatch ELSE CommitsNothing
       /\ CrashedCommitsNothing']_vars

\* C25 happens: the calls have committed CallsMaxVersion batches, one of
\* them by remove() with two records, and the list holds a CRASHED entry,
\* on which crashed() commits nothing.
C25_Witness ==
    /\ version = CallsMaxVersion
    /\ Len(updates) = CallsMaxVersion
    /\ \E k \in 1..Len(updates) : Len(updates[k].servers) = 2
    /\ \E e \in AllEntries(serverList) : e.status = "CRASHED"

\* C26: when the updater thread, after a pass that left noActiveRpcs true,
\* finds under the lock that hasUpdates returns false and stopUpdater is not
\* set, isClusterUpToDate holds: the assertion ahead of its wait.
C26_WaitLoopAssertionHolds ==
    [][(UpdaterWaitLoop /\ updaterPC' = "waiting")
          => /\ isClusterUpToDate(State')
             /\ \A e \in Members(serverList') :
                   e.serverListVersion = version' /\ ~e.isBeingUpdated]_vars

\* C26 happens: the updater thread waits while the list has a member that
\* got its updates from it.
C26_Witness ==
    /\ updaterPC = "waiting"
    /\ version = MaxVersion
    /\ \E e \in Members(serverList) : e.serverListVersion = MaxVersion
    /\ Cardinality(Members(serverList)) = 2

\* The nextGenerationNumber of the slot of index in list; 0 for a slot the
\* list does not have yet.
NextGenerationAt(list, index) ==
    IF index \in DOMAIN list THEN list[index].nextGenerationNumber ELSE 0

\* C27: add(id, ...) leaves the slot of id with nextGenerationNumber equal to
\* the greater of its value before the call and id's generation plus one, so
\* the call never lowers it.
C27_AddKeepsGreatestGeneration ==
    [][\A id \in ServerIds(CallsMaxGeneration), mask \in ServiceMasks :
          Add(id, mask) =>
              LET before == NextGenerationAt(serverList, id.index)
                  after == NextGenerationAt(serverList', id.index)
              IN  /\ after >= before
                  /\ after = IF before > id.generation + 1
                             THEN before
                             ELSE id.generation + 1]_vars

\* The entries loadNextUpdate may pick: members whose serverListVersion is
\* not version and that are not being updated.
Eligible(list, v) ==
    {e \in Members(list) : e.serverListVersion # v /\ ~e.isBeingUpdated}

\* C28: between the calls, when lastScan.noUpdatesFound is true no entry is
\* eligible for an update.
C28_NoUpdatesFoundIsSound ==
    lastScan.noUpdatesFound => Eligible(serverList, version) = {}

\* C28 happens: a scan found nothing to do in a list with two members that
\* have the last version, and the flag is still set.
C28_Witness ==
    /\ lastScan.noUpdatesFound
    /\ version = MaxVersion
    /\ Cardinality(Members(serverList)) = 2
    /\ \A e \in Members(serverList) : e.serverListVersion = version

\* The updater finds the RPC of the slot it is at completed, and the RPC is
\* one that takes an entry from serverListVersion a to b.
Acknowledges(a, b) ==
    /\ UpdaterDispatchOutcome("success")
    /\ LET protobuf == updateSlots[slotIndex].protobuf
       IN  /\ b = protobuf.version
           /\ \/ protobuf.type = "FULL_LIST" /\ a = 0
              \/ protobuf.type = "UPDATE" /\ b = a + 1

\* C29: while an entry stays in its slot, its serverListVersion never
\* decreases and is never above version, and it changes only when an RPC to
\* its server completes: from 0 to the version a full list was serialized
\* at, or from a to a + 1 by the batch of version a + 1.
C29_AcknowledgedVersionAdvances ==
    [][\A id \in ServerIds(MaxGeneration) :
          (/\ HasEntry(serverList, id)
           /\ HasEntry(serverList', id)
           /\ \A mask \in ServiceMasks : ~Add(id, mask))
              => LET a == serverList[id.index].entry[1].serverListVersion
                     b == serverList'[id.index].entry[1].serverListVersion
                 IN  /\ a <= b
                     /\ b <= version'
                     /\ a # b => /\ updateSlots[slotIndex].serverId = id
                                 /\ Acknowledges(a, b)]_vars

====
